---- MODULE Spec2Model ----
(***************************************************************************)
(* A model of turnip: construction (newEnv, the reflection walk of every   *)
(* candidate, makeUniquePaths) and the request path (UnmarshalJSON and     *)
(* traverseResolver.ResolveJSON).                                          *)
(*                                                                         *)
(* Strings that the code manipulates (field names, tags, paths) are        *)
(* sequences of one-character strings, so that normalizeName and           *)
(* appendToPath are computed character by character.  Go maps are          *)
(* functions over the set of their keys; a `range` over a map visits the   *)
(* keys in an order the model leaves open.                                 *)
(***************************************************************************)
EXTENDS Integers, Sequences, FiniteSets, TLC

(* ---------------------------------------------------------------- bounds *)

\* longest list of candidates drawn from UniqueTypes
MaxCandidates == 3
\* longest list of candidates drawn from WalkTypes
MaxWalkCandidates == 2
\* number of goroutines calling UnmarshalJSON on the shared Unmarshaler
NumThreads == 2

(* ------------------------------------------------------- gjson.Type tags *)

Null == "Null"
False == "False"
Number == "Number"
String == "String"
True == "True"
JSON == "JSON"

(* --------------------------------------------------------------- strings *)

upperChars == <<"A","B","C","D","E","F","G","H","I","J","K","L","M",
                "N","O","P","Q","R","S","T","U","V","W","X","Y","Z">>
lowerChars == <<"a","b","c","d","e","f","g","h","i","j","k","l","m",
                "n","o","p","q","r","s","t","u","v","w","x","y","z">>

IsUpper(c) == \E i \in DOMAIN upperChars : upperChars[i] = c

ToLowerChar(c) ==
    IF IsUpper(c)
    THEN lowerChars[CHOOSE i \in DOMAIN upperChars : upperChars[i] = c]
    ELSE c

\* strings.ToLower
ToLower(s) == [i \in DOMAIN s |-> ToLowerChar(s[i])]

\* strings.ReplaceAll(s, c, "") for a one-character c
ReplaceAllEmpty(s, c) == SelectSeq(s, LAMBDA x : x # c)

RECURSIVE cutsetLoop(_, _, _)
cutsetLoop(s, cutset, i) ==
    IF i > Len(cutset) THEN s
    ELSE cutsetLoop(ReplaceAllEmpty(s, cutset[i]), cutset, i + 1)

cutsetString(s, cutset) == cutsetLoop(s, cutset, 1)

normalizeName(name) == cutsetString(ToLower(name), <<" ", "_", "-">>)

HasSuffixDot(path) == Len(path) > 0 /\ path[Len(path)] = "."

appendToPath(path, name) ==
    IF Len(path) = 0 \/ HasSuffixDot(path)
    THEN path \o normalizeName(name)
    ELSE path \o <<".">> \o normalizeName(name)

jsonIgnoreTag == <<"-">>

(* ------------------------------------------------------- reflected types *)

\* A reflect.Type: its Kind, the fields of a struct, the element of a
\* slice, array, map or pointer.
Basic(k) == [kind |-> k, fields |-> <<>>, elem |-> <<>>]
StructOf(fs) == [kind |-> "Struct", fields |-> fs, elem |-> <<>>]
SliceOf(t) == [kind |-> "Slice", fields |-> <<>>, elem |-> <<t>>]
PointerTo(t) == [kind |-> "Pointer", fields |-> <<>>, elem |-> <<t>>]

\* A reflect.StructField: Name, the value of its `json` tag, Type.
Field(n, tag, t) == [Name |-> n, Tag |-> tag, Type |-> t]

\* reflect.StructField.IsExported: the name starts with an upper-case letter
IsExported(f) == Len(f.Name) > 0 /\ IsUpper(f.Name[1])

nFoo == <<"F","o","o">>
nBar == <<"B","a","r">>
nBaz == <<"B","a","z">>
nShared == <<"S","h","a","r","e","d">>
nPrivate == <<"p","r","i","v","a","t","e">>
nFlag == <<"F","l","a","g">>
nName == <<"N","a","m","e">>
nFn == <<"F","n">>
nCh == <<"C","h">>
nInner == <<"I","n","n","e","r">>
nSkip == <<"S","k","i","p">>
nX == <<"X">>
nList == <<"L","i","s","t">>
nPtr == <<"P","t","r">>
nUserID == <<"U","s","e","r","_","I","D">>
noTag == <<>>

\* The registered types, by name.  s1 and s2 are the two records of
\* cmd/main.go; the others exercise the walker's cases.
TypeDef(n) ==
    CASE n = "s1" -> StructOf(<<Field(nFoo, noTag, Basic("String")),
                                Field(nShared, noTag, Basic("Int")),
                                Field(nPrivate, noTag, Basic("Func"))>>)
      [] n = "s2" -> StructOf(<<Field(nBar, noTag, Basic("String")),
                                Field(nShared, noTag, Basic("Int"))>>)
      [] n = "s3" -> StructOf(<<Field(nBaz, noTag, Basic("String")),
                                Field(nShared, noTag, Basic("Float64"))>>)
      [] n = "s4" -> StructOf(<<Field(nFoo, noTag, Basic("String")),
                                Field(nShared, noTag, Basic("String"))>>)
      [] n = "b1" -> StructOf(<<Field(nFlag, noTag, Basic("Bool")),
                                Field(nUserID, noTag, Basic("Uint64"))>>)
      [] n = "f1" -> StructOf(<<Field(nName, noTag, Basic("String")),
                                Field(nFn, noTag, Basic("Func"))>>)
      [] n = "f2" -> StructOf(<<Field(nInner, noTag,
                                  StructOf(<<Field(nX, noTag, Basic("String")),
                                             Field(nCh, noTag, Basic("Chan"))>>))>>)
      [] n = "f3" -> StructOf(<<Field(nInner, noTag,
                                  StructOf(<<Field(nSkip, jsonIgnoreTag, Basic("Func")),
                                             Field(nX, noTag, Basic("String"))>>))>>)
      [] n = "f4" -> StructOf(<<Field(nSkip, jsonIgnoreTag, Basic("Func")),
                                Field(nX, noTag, Basic("String"))>>)
      [] n = "f5" -> StructOf(<<Field(nSkip, jsonIgnoreTag, Basic("String")),
                                Field(nX, noTag, Basic("Int"))>>)
      [] n = "f6" -> StructOf(<<Field(nList, noTag,
                                  SliceOf(StructOf(<<Field(nFn, noTag, Basic("Func"))>>)))>>)
      [] n = "f7" -> StructOf(<<Field(nPtr, noTag, PointerTo(Basic("Int")))>>)
      [] n = "n1" -> Basic("Int")

UniqueTypes == {"s1", "s2", "s3", "s4", "b1"}
WalkTypes == {"s1", "f1", "f2", "f3", "f4", "f5", "f6", "f7", "n1"}

(* ------------------------------------------------------------ the walker *)

nil == "nil"
ErrUnsupportedType == "unsupported type"
ErrNotAStruct == "not a struct"
ErrUnknownType == "unknown type"
\* reflect.VisibleFields panics when its argument is not a struct
Panic == "panic"

\* jsonPaths: a map from path to gjson.Type
EmptyPaths == [p \in {} |-> Null]
Put(paths, k, v) == [p \in (DOMAIN paths) \cup {k} |-> IF p = k THEN v ELSE paths[p]]
Delete(paths, k) == [p \in (DOMAIN paths) \ {k} |-> paths[p]]

getJSONName(f) == IF f.Tag = jsonIgnoreTag THEN jsonIgnoreTag ELSE f.Name

\* getJSONType with reflect.Func left out of the unsupported kinds
getJSONTypeFuncUnlisted(t) ==
    CASE t.kind = "String" -> [typ |-> String, err |-> nil]
      [] t.kind = "Bool" -> [typ |-> True, err |-> nil]
      [] t.kind \in {"Int", "Int8", "Int16", "Int32", "Int64",
                     "Uint", "Uint8", "Uint16", "Uint32", "Uint64", "Uintptr",
                     "Float32", "Float64", "Complex64", "Complex128"}
            -> [typ |-> Number, err |-> nil]
      [] t.kind \in {"Map", "Pointer", "Slice", "Struct", "Array"}
            -> [typ |-> JSON, err |-> nil]
      [] t.kind \in {"Chan", "Interface", "UnsafePointer", "Invalid"}
            -> [typ |-> Null, err |-> ErrUnsupportedType]
      [] OTHER -> [typ |-> Null, err |-> ErrUnknownType]

getJSONType(t) ==
    CASE t.kind = "String" -> [typ |-> String, err |-> nil]
      [] t.kind = "Bool" -> [typ |-> True, err |-> nil]
      [] t.kind \in {"Int", "Int8", "Int16", "Int32", "Int64",
                     "Uint", "Uint8", "Uint16", "Uint32", "Uint64", "Uintptr",
                     "Float32", "Float64", "Complex64", "Complex128"}
            -> [typ |-> Number, err |-> nil]
      [] t.kind \in {"Map", "Pointer", "Slice", "Struct", "Array"}
            -> [typ |-> JSON, err |-> nil]
      [] t.kind \in {"Chan", "Func", "Interface", "UnsafePointer", "Invalid"}
            -> [typ |-> Null, err |-> ErrUnsupportedType]
      [] OTHER -> [typ |-> Null, err |-> ErrUnknownType]

RECURSIVE buildPathsForField(_, _, _)
RECURSIVE fieldLoop(_, _, _, _)

\* the loop of buildPathsForField over reflect.VisibleFields(t), from field i
fieldLoop(paths, curr, fs, i) ==
    IF i > Len(fs) THEN [err |-> nil, paths |-> paths]
    ELSE IF ~IsExported(fs[i]) THEN fieldLoop(paths, curr, fs, i + 1)
    ELSE LET name == getJSONName(fs[i]) IN
         IF name = jsonIgnoreTag THEN fieldLoop(paths, curr, fs, i + 1)
         ELSE LET r == buildPathsForField(paths, appendToPath(curr, name), fs[i].Type) IN
              IF r.err # nil THEN r
              ELSE fieldLoop(r.paths, curr, fs, i + 1)

buildPathsForField(paths, curr, t) ==
    LET jt == getJSONType(t) IN
    IF jt.err # nil THEN [err |-> jt.err, paths |-> paths]
    ELSE IF jt.typ = True \/ jt.typ = False
         THEN [err |-> nil, paths |-> Put(Put(paths, curr, True), curr, False)]
    ELSE IF jt.typ # JSON
         THEN [err |-> nil, paths |-> Put(paths, curr, jt.typ)]
    ELSE IF t.kind = "Array" \/ t.kind = "Slice" \/ t.kind = "Map"
         THEN [err |-> nil, paths |-> Put(paths, curr, JSON)]
    ELSE IF t.kind # "Struct"
         THEN [err |-> Panic, paths |-> paths]
    ELSE fieldLoop(paths, curr, t.fields, 1)

RECURSIVE rootLoop(_, _, _)
\* the loop of buildPathsForRoot over reflect.VisibleFields(t), from field i
rootLoop(paths, fs, i) ==
    IF i > Len(fs) THEN [err |-> nil, paths |-> paths]
    ELSE IF ~IsExported(fs[i]) THEN rootLoop(paths, fs, i + 1)
    ELSE LET r == buildPathsForField(paths, appendToPath(<<>>, getJSONName(fs[i])),
                                     fs[i].Type) IN
         IF r.err # nil THEN [err |-> r.err, paths |-> EmptyPaths]
         ELSE rootLoop(r.paths, fs, i + 1)

buildPathsForRoot(t) ==
    IF t.kind # "Struct" THEN [err |-> ErrNotAStruct, paths |-> EmptyPaths]
    ELSE rootLoop(EmptyPaths, t.fields, 1)

(* ------------------------------------------------------------ parameters *)

\* The Parameter values a caller can hand to New.  A *candidate is a
\* pointer: the i-th parameter allocates candidate number i.
Candidate(v) == [kind |-> "candidate", typ |-> v]
SelectOn == [kind |-> "selector", typ |-> nil]
Default == [kind |-> "fallback", typ |-> nil]
EnableDebug == [kind |-> "setting", typ |-> nil]
NilParameter == [kind |-> "nil", typ |-> nil]

ErrOneDefault == "only one default type can be used at a time"
ErrNoCandidates == "at least one candidate must be defined"
ErrInvalidParameter == "invalid parameter type"

RECURSIVE newEnvLoop(_, _, _)
newEnvLoop(params, i, env) ==
    IF i > Len(params)
    THEN IF Len(env.candidates) = 0
         THEN [env EXCEPT !.err = ErrNoCandidates, !.candidates = <<>>]
         ELSE env
    ELSE LET p == params[i] IN
         CASE p.kind = "nil" -> [env EXCEPT !.err = ErrOneDefault, !.candidates = <<>>]
           [] p.kind = "selector" -> newEnvLoop(params, i + 1, env)
           [] p.kind = "candidate" ->
                newEnvLoop(params, i + 1,
                    [env EXCEPT !.candidates = Append(@, [id |-> i, typ |-> p.typ])])
           [] p.kind = "setting" -> newEnvLoop(params, i + 1, [env EXCEPT !.verbose = TRUE])
           [] p.kind = "fallback" ->
                IF env.fallback
                THEN [env EXCEPT !.err = ErrOneDefault, !.candidates = <<>>]
                ELSE newEnvLoop(params, i + 1, [env EXCEPT !.fallback = TRUE])
           [] OTHER -> [env EXCEPT !.err = ErrInvalidParameter, !.candidates = <<>>]

newEnv(params) ==
    newEnvLoop(params, 1,
               [err |-> nil, candidates |-> <<>>, verbose |-> FALSE, fallback |-> FALSE])

(* ------------------------------------------------------- makeUniquePaths *)

\* pathsBLoop without delete(pathsB, pathB)
pathsBLoopKeepB(cp, a, pathA, typeA, b) ==
    IF \E pathB \in DOMAIN cp[b] : pathA = pathB /\ typeA = cp[b][pathB]
    THEN [cp EXCEPT ![a] = Delete(cp[a], pathA)]
    ELSE cp

\* for pathB, typeB := range pathsB: at the first entry equal to
\* (pathA, typeA), delete it from both maps and break.  A map holds a key
\* once, so the order of this range cannot change what is found.
pathsBLoop(cp, a, pathA, typeA, b) ==
    IF \E pathB \in DOMAIN cp[b] : pathA = pathB /\ typeA = cp[b][pathB]
    THEN [cp EXCEPT ![a] = Delete(cp[a], pathA), ![b] = Delete(cp[b], pathA)]
    ELSE cp

\* `continue` when candidateA.typ == candidateB.typ
SameCandidate(a, b) == a.typ = b.typ

RECURSIVE candidateBLoop(_, _, _, _, _)
\* for candidateB, pathsB := range candidatePaths, candidates todoB still
\* to come, in every order; the set of maps the loop can end with
candidateBLoop(cp, a, pathA, typeA, todoB) ==
    IF todoB = {} THEN {cp}
    ELSE UNION { candidateBLoop(IF SameCandidate(a, b) THEN cp
                                ELSE pathsBLoop(cp, a, pathA, typeA, b),
                                a, pathA, typeA, todoB \ {b}) : b \in todoB }

RECURSIVE pathsALoop(_, _, _)
\* for pathA, typeA := range pathsA: todoA are the keys not yet produced; a
\* key deleted before it is reached is not produced
pathsALoop(cp, a, todoA) ==
    LET live == todoA \cap DOMAIN cp[a] IN
    IF live = {} THEN {cp}
    ELSE UNION { UNION { pathsALoop(cp2, a, live \ {pathA}) :
                         cp2 \in candidateBLoop(cp, a, pathA, cp[a][pathA], DOMAIN cp) } :
                 pathA \in live }

RECURSIVE candidateALoop(_, _)
\* for candidateA, pathsA := range candidatePaths, in every order
candidateALoop(cp, todo) ==
    IF todo = {} THEN {cp}
    ELSE UNION { UNION { candidateALoop(cp2, todo \ {a}) :
                         cp2 \in pathsALoop(cp, a, DOMAIN cp[a]) } :
                 a \in todo }

\* every map makeUniquePaths can return, over the iteration orders of the
\* candidate map and of the path maps
makeUniquePaths(candidatePaths) ==
    candidateALoop(candidatePaths, DOMAIN candidatePaths)

(* --------------------------------------------------- newTraverseResolver *)

NoPaths == [c \in {} |-> EmptyPaths]

RECURSIVE buildLoop(_, _, _)
\* the loop of newTraverseResolver over env.candidates, from candidate i
buildLoop(cs, i, candidatePaths) ==
    IF i > Len(cs) THEN [err |-> nil, paths |-> candidatePaths]
    ELSE LET r == buildPathsForRoot(TypeDef(cs[i].typ)) IN
         IF r.err # nil THEN [err |-> r.err, paths |-> NoPaths]
         ELSE buildLoop(cs, i + 1,
                        [c \in (DOMAIN candidatePaths) \cup {cs[i]} |->
                            IF c = cs[i] THEN r.paths ELSE candidatePaths[c]])

\* the results newTraverseResolver can return
newTraverseResolver(env) ==
    LET built == buildLoop(env.candidates, 1, NoPaths) IN
    IF built.err # nil THEN {[err |-> built.err, paths |-> NoPaths]}
    ELSE {[err |-> nil, paths |-> ps] : ps \in makeUniquePaths(built.paths)}

\* the results New can return: the *Unmarshaler (nil, or one holding the
\* resolver with its paths) and the error, named by the error it wraps
NewResults(ps) ==
    LET env == newEnv(ps) IN
    IF env.err # nil THEN {[u |-> nil, err |-> env.err, paths |-> NoPaths]}
    ELSE {[u |-> IF r.err = nil THEN "Unmarshaler" ELSE nil, err |-> r.err, paths |-> r.paths] :
          r \in newTraverseResolver(env)}

(* ------------------------------------------------------------- documents *)

pFoo == <<"f","o","o">>
pBar == <<"b","a","r">>
pShared == <<"s","h","a","r","e","d">>
pFlag == <<"f","l","a","g">>

\* A document: the kind of its root value and, for an object, the
\* gjson.Type of the value found at each path that exists in it.
Object(vals) == [root |-> "object", vals |-> vals]
Root(kind) == [root |-> kind, vals |-> EmptyPaths]

dFooShared == Object(pFoo :> String @@ pShared :> Number)
dBarShared == Object(pBar :> String @@ pShared :> Number)
dShared == Object(pShared :> Number)
dFooBar == Object(pFoo :> String @@ pBar :> String)
dFooNumber == Object(pFoo :> Number)
dFlagTrue == Object(pFlag :> True)
dFlagFalse == Object(pFlag :> False)

Documents ==
    { dFooShared, dBarShared, dShared, dFooBar, dFooNumber, dFlagTrue, dFlagFalse,
      Root("array"), Root("string"), Root("number"), Root("true"), Root("false"),
      Root("null") }

\* gjson.ParseBytes(b).Type: an object and an array are both JSON
ParseBytesType(d) ==
    CASE d.root = "object" -> JSON
      [] d.root = "array" -> JSON
      [] d.root = "string" -> String
      [] d.root = "number" -> Number
      [] d.root = "true" -> True
      [] d.root = "false" -> False
      [] OTHER -> Null

\* res.Get(path).Type: Null when nothing is at the path.  The paths of a
\* fingerprint are field names, which index no array.
Get(res, path) ==
    IF res.root = "object" /\ path \in DOMAIN res.vals THEN res.vals[path] ELSE Null

(* --------------------------------------------------------------- resolver *)

\* EntryMatches taking a path that is missing from the document for a match
EntryMatchesOrMissing(res, path, typ) == Get(res, path) \in {typ, Null}

\* res.Get(path).Type == typ
EntryMatches(res, path, typ) == Get(res, path) = typ

\* NextCandidates for a map that is ranged in registration order
NextCandidatesInOrder(todo) == {c \in todo : \A o \in todo : c.id <= o.id}

\* the candidates `for c, paths := range r.paths` can produce next, when
\* those of todo have not been produced yet
NextCandidates(todo) == todo

\* VisitCandidate dropping from r.paths the entries the document missed
VisitCandidatePruning(rpaths, res, c) ==
    [hit |-> \E path \in DOMAIN rpaths[c] : EntryMatches(res, path, rpaths[c][path]),
     typ |-> c.typ,
     paths |-> [rpaths EXCEPT ![c] =
                    [path \in {q \in DOMAIN rpaths[c] : EntryMatches(res, q, rpaths[c][q])}
                        |-> rpaths[c][path]]]]

\* one iteration of the outer loop of ResolveJSON, on candidate c: whether
\* the inner loop returns, the type it returns, and r.paths after it
VisitCandidate(rpaths, res, c) ==
    [hit |-> \E path \in DOMAIN rpaths[c] : EntryMatches(res, path, rpaths[c][path]),
     typ |-> c.typ,
     paths |-> rpaths]

ErrInvalidJSON == "invalid json: not an object"
ErrNoMatch == "no match"
ErrUnmarshal == "unmarshall"

(* ------------------------------------------------------------- the state *)

VARIABLES
    params,   \* the parameters New is called with
    phase,    \* "init" before New, then "built" or "failed"
    u,        \* the *Unmarshaler New returned
    newErr,   \* the error New returned
    paths,    \* u.resolver.paths: candidate -> jsonPaths
    pc,       \* per goroutine: "idle", "resolve", "decode", "done"
    doc,      \* per goroutine: the document of its UnmarshalJSON call
    todo,     \* per goroutine: the candidates ResolveJSON has not visited
    typ,      \* per goroutine: the type ResolveJSON returned
    ret       \* per goroutine: what UnmarshalJSON returned, [v, err]

buildVars == <<params, phase, u, newErr, paths>>
callVars == <<pc, doc, todo, typ, ret>>
vars == <<params, phase, u, newErr, paths, pc, doc, todo, typ, ret>>

Threads == 1..NumThreads

NoDoc == Root("none")
NoRet == [v |-> nil, err |-> nil]

RECURSIVE SeqsUpTo(_, _)
SeqsUpTo(S, n) ==
    IF n = 0 THEN {<<>>}
    ELSE LET shorter == SeqsUpTo(S, n - 1) IN
         shorter \cup {Append(s, x) : s \in shorter, x \in S}

CandidateLists(S, n) ==
    {[i \in DOMAIN s |-> Candidate(s[i])] : s \in SeqsUpTo(S, n)}

\* parameter lists with the other kinds of Parameter
MixedParams ==
    { <<Candidate("s1"), Candidate("s2"), EnableDebug>>,
      <<NilParameter>>,
      <<Default, Candidate("s1")>>,
      <<Default, Default, Candidate("s1")>>,
      <<SelectOn, Candidate("b1")>> }

BuildParams ==
    CandidateLists(UniqueTypes, MaxCandidates)
        \cup CandidateLists(WalkTypes, MaxWalkCandidates)
        \cup MixedParams

\* the parameter lists of the engines that serve requests
RequestParams ==
    { <<Candidate("s1"), Candidate("s2"), EnableDebug>>,
      <<Candidate("s2"), Candidate("b1")>>,
      <<Candidate("b1")>>,
      <<Candidate("s4"), Candidate("s3")>>,
      <<Candidate("f1")>> }

InitCalls ==
    /\ pc = [t \in Threads |-> "idle"]
    /\ doc = [t \in Threads |-> NoDoc]
    /\ todo = [t \in Threads |-> {}]
    /\ typ = [t \in Threads |-> nil]
    /\ ret = [t \in Threads |-> NoRet]

InitBuild ==
    /\ params \in BuildParams
    /\ phase = "init"
    /\ u = nil
    /\ newErr = nil
    /\ paths = NoPaths
    /\ InitCalls

Init ==
    /\ params \in RequestParams
    /\ phase = "init"
    /\ u = nil
    /\ newErr = nil
    /\ paths = NoPaths
    /\ InitCalls

\* turnip.New(params...)
New ==
    /\ phase = "init"
    /\ \E r \in NewResults(params) :
        /\ u' = r.u
        /\ newErr' = r.err
        /\ paths' = r.paths
        /\ phase' = IF r.err = nil THEN "built" ELSE "failed"
    /\ UNCHANGED <<params, pc, doc, todo, typ, ret>>

\* u.UnmarshalJSON(b) up to the call of the resolver
Call(t, d) ==
    /\ phase = "built"
    /\ pc[t] = "idle"
    /\ doc' = [doc EXCEPT ![t] = d]
    /\ IF ParseBytesType(d) # JSON
       THEN /\ pc' = [pc EXCEPT ![t] = "done"]
            /\ ret' = [ret EXCEPT ![t] = [v |-> nil, err |-> ErrInvalidJSON]]
            /\ UNCHANGED todo
       ELSE /\ pc' = [pc EXCEPT ![t] = "resolve"]
            /\ todo' = [todo EXCEPT ![t] = DOMAIN paths]
            /\ UNCHANGED ret
    /\ UNCHANGED <<params, phase, u, newErr, paths, typ>>

\* ResolveJSON visits one more candidate
ResolveCandidate(t) ==
    /\ pc[t] = "resolve"
    /\ \E c \in NextCandidates(todo[t]) :
        LET r == VisitCandidate(paths, doc[t], c) IN
        /\ paths' = r.paths
        /\ IF r.hit
           THEN /\ typ' = [typ EXCEPT ![t] = r.typ]
                /\ pc' = [pc EXCEPT ![t] = "decode"]
                /\ todo' = [todo EXCEPT ![t] = {}]
                /\ UNCHANGED ret
           ELSE /\ todo' = [todo EXCEPT ![t] = @ \ {c}]
                /\ UNCHANGED <<pc, typ, ret>>
    /\ UNCHANGED <<params, phase, u, newErr, doc>>

\* ResolveJSON has visited every candidate and returns nil, nil
ResolveNone(t) ==
    /\ pc[t] = "resolve"
    /\ todo[t] = {}
    /\ pc' = [pc EXCEPT ![t] = "done"]
    /\ ret' = [ret EXCEPT ![t] = [v |-> nil, err |-> ErrNoMatch]]
    /\ UNCHANGED <<params, phase, u, newErr, paths, doc, todo, typ>>

\* json.Unmarshal(b, reflect.New(typ)): the decoder binds the document or
\* rejects it
Decode(t) ==
    /\ pc[t] = "decode"
    /\ pc' = [pc EXCEPT ![t] = "done"]
    /\ \E ok \in BOOLEAN :
        ret' = [ret EXCEPT ![t] = IF ok THEN [v |-> typ[t], err |-> nil]
                                  ELSE [v |-> nil, err |-> ErrUnmarshal]]
    /\ UNCHANGED <<params, phase, u, newErr, paths, doc, todo, typ>>

\* the caller takes the result; the goroutine is free to call again
Return(t) ==
    /\ pc[t] = "done"
    /\ pc' = [pc EXCEPT ![t] = "idle"]
    /\ doc' = [doc EXCEPT ![t] = NoDoc]
    /\ typ' = [typ EXCEPT ![t] = nil]
    /\ ret' = [ret EXCEPT ![t] = NoRet]
    /\ UNCHANGED <<params, phase, u, newErr, paths, todo>>

Next ==
    \/ New
    \/ \E t \in Threads, d \in Documents : Call(t, d)
    \/ \E t \in Threads : ResolveCandidate(t)
    \/ \E t \in Threads : ResolveNone(t)
    \/ \E t \in Threads : Decode(t)
    \/ \E t \in Threads : Return(t)

Spec == Init /\ [][Next]_vars

NextBuild == New

\* construction alone, over the larger set of parameter lists
SpecBuild == InitBuild /\ [][NextBuild]_vars

(* ---------------------------------------------------------------- claims *)

Entries(m) == {<<p, m[p]>> : p \in DOMAIN m}

\* the candidates of a parameter list and their path maps before pruning
CandidatesOf(ps) == newEnv(ps).candidates
OrigPaths(ps) == buildLoop(CandidatesOf(ps), 1, NoPaths).paths

\* the document holds, at path p, a value whose type tag is k
InDocument(d, p, k) == d.root = "object" /\ p \in DOMAIN d.vals /\ d.vals[p] = k

\* the document holds a value matching some fingerprint entry of c
Satisfies(d, c) == \E p \in DOMAIN paths[c] : InDocument(d, p, paths[c][p])

\* C1: after construction each candidate's fingerprint is exactly the set of
\* entries of its own original map that occur in no other candidate's
\* original map, each registration counting as a candidate of its own.
C1_FingerprintIsUniqueEntries ==
    phase = "built" =>
        LET orig == OrigPaths(params) IN
        \A c \in DOMAIN paths :
            Entries(paths[c]) =
                {e \in Entries(orig[c]) :
                    \A o \in (DOMAIN orig) \ {c} : e \notin Entries(orig[o])}

\* C10: the fingerprints New ends with are the only ones makeUniquePaths can
\* produce from the candidates' maps, whatever the iteration orders.
C10_Deterministic ==
    phase = "built" => \A r \in makeUniquePaths(OrigPaths(params)) : r = paths

\* C2: ResolveJSON returns a type only when the document holds a value
\* matching one fingerprint entry of a candidate of that type, and
\* UnmarshalJSON of an object ends in "no match" exactly when the document
\* matches no fingerprint entry of any candidate; one matching entry is
\* enough, and a path missing from the document matches nothing.
C2_ExistentialAndSound ==
    \A t \in Threads :
        /\ typ[t] # nil =>
               \E c \in DOMAIN paths : c.typ = typ[t] /\ Satisfies(doc[t], c)
        /\ (pc[t] = "done" /\ ParseBytesType(doc[t]) = JSON) =>
               (ret[t] = [v |-> nil, err |-> ErrNoMatch]
                    <=> ~(\E c \in DOMAIN paths : Satisfies(doc[t], c)))

\* a call resolved to a candidate one of whose entries the document misses
C2_Witness ==
    \E t \in Threads, c \in DOMAIN paths :
        /\ pc[t] = "done"
        /\ ret[t] = [v |-> c.typ, err |-> nil]
        /\ \E p \in DOMAIN paths[c] : ~InDocument(doc[t], p, paths[c][p])
        /\ \E p \in DOMAIN paths[c] : p \notin DOMAIN doc[t].vals

\* the root-level paths of the exported boolean fields of a type
BoolPaths(n) ==
    LET fs == TypeDef(n).fields IN
    {appendToPath(<<>>, getJSONName(fs[i])) :
        i \in {j \in DOMAIN fs : IsExported(fs[j]) /\ fs[j].Type.kind = "Bool"}}

\* C3: when a boolean field's entry at path p is in the fingerprint of a
\* candidate, a document holding true or false at p, and matching no other
\* fingerprint entry, resolves to that candidate.
C3_BoolEitherLiteral ==
    \A t \in Threads : \A c \in DOMAIN paths : \A p \in BoolPaths(c.typ) :
        ( /\ pc[t] = "done"
          /\ p \in DOMAIN paths[c]
          /\ (InDocument(doc[t], p, True) \/ InDocument(doc[t], p, False))
          /\ \A c2 \in DOMAIN paths : \A p2 \in DOMAIN paths[c2] :
                 <<c2, p2>> # <<c, p>> => ~InDocument(doc[t], p2, paths[c2][p2]) )
        => typ[t] = c.typ

\* C4: with s1 {Foo string, Shared int} and s2 {Bar string, Shared int}
\* registered, the fingerprints are {foo: string} and {bar: string}; a
\* document with foo and shared resolves to s1, one with bar and shared to
\* s2, and one with shared alone ends in ErrNoMatch.
C4_EndToEnd ==
    (phase = "built" /\ [i \in DOMAIN CandidatesOf(params) |-> CandidatesOf(params)[i].typ]
                            = <<"s1", "s2">>) =>
        /\ paths = ([id |-> 1, typ |-> "s1"] :> (pFoo :> String)
                        @@ [id |-> 2, typ |-> "s2"] :> (pBar :> String))
        /\ \A t \in Threads :
            /\ (pc[t] \in {"decode", "done"} /\ doc[t] = dFooShared) => typ[t] = "s1"
            /\ (pc[t] \in {"decode", "done"} /\ doc[t] = dBarShared) => typ[t] = "s2"
            /\ (pc[t] = "done" /\ doc[t] = dShared)
                   => ret[t] = [v |-> nil, err |-> ErrNoMatch]

\* the three documents of C4 have been served by the engine of s1 and s2
C4_Witness ==
    /\ phase = "built"
    /\ params = <<Candidate("s1"), Candidate("s2"), EnableDebug>>
    /\ \E t1, t2 \in Threads :
        /\ pc[t1] = "done" /\ doc[t1] = dFooShared /\ ret[t1] = [v |-> "s1", err |-> nil]
        /\ pc[t2] = "done" /\ doc[t2] = dShared /\ ret[t2].err = ErrNoMatch

\* C7: a document whose root is not an object is rejected with the
\* invalid-document error without the resolver being consulted.
C7_NonObjectRejected ==
    \A t \in Threads :
        (pc[t] # "idle" /\ doc[t].root # "object") =>
            (pc[t] = "done" /\ ret[t] = [v |-> nil, err |-> ErrInvalidJSON])

\* what a call on document d can return, given the fingerprints alone
PossibleReturns(ps, d) ==
    LET matched == {c.typ : c \in {x \in DOMAIN ps :
                        \E p \in DOMAIN ps[x] : InDocument(d, p, ps[x][p])}} IN
    IF d.root \notin {"object", "array"} THEN {[v |-> nil, err |-> ErrInvalidJSON]}
    ELSE IF matched = {} THEN {[v |-> nil, err |-> ErrNoMatch]}
    ELSE {[v |-> m, err |-> nil] : m \in matched} \cup {[v |-> nil, err |-> ErrUnmarshal]}

\* C8: once New has returned, no step changes the fingerprint maps, the
\* candidate set or the engine, however the calls interleave, and what a
\* call returns is determined by its own document and the fingerprints.
C8_FrozenAfterNew ==
    /\ [][phase = "built" =>
            (paths' = paths /\ u' = u /\ params' = params /\ phase' = phase)]_vars
    /\ [](\A t \in Threads : pc[t] = "done" => ret[t] \in PossibleReturns(paths, doc[t]))

\* two calls on different documents in flight at once, one already resolved
C8_Witness ==
    \E t1, t2 \in Threads :
        /\ pc[t1] = "decode" /\ pc[t2] = "resolve"
        /\ doc[t1] # doc[t2]
        /\ todo[t2] # {} /\ todo[t2] # DOMAIN paths

\* C9: when a document matches a fingerprint entry of several candidates,
\* ResolveJSON can return the type of any of them: from the start of the
\* loop, visiting that candidate first is a possible step.
C9_AnyMatchingCandidate ==
    \A t \in Threads : \A c \in DOMAIN paths :
        (pc[t] = "resolve" /\ todo[t] = DOMAIN paths /\ Satisfies(doc[t], c))
            => ENABLED (ResolveCandidate(t) /\ typ'[t] = c.typ)

\* the same document resolved to two different types on the same engine
C9_Witness ==
    \E t1, t2 \in Threads :
        /\ pc[t1] = "done" /\ pc[t2] = "done"
        /\ doc[t1] = dFooBar /\ doc[t2] = dFooBar
        /\ ret[t1] = [v |-> "s1", err |-> nil]
        /\ ret[t2] = [v |-> "s2", err |-> nil]

\* the types of the candidates among the parameters
CandidateTypes(ps) == {ps[i].typ : i \in {j \in DOMAIN ps : ps[j].kind = "candidate"}}

RECURSIVE HasFuncOrChanField(_)
\* the type has a func or chan field somewhere: in a nested struct or in the
\* element of a collection, exported or not, tagged or not
HasFuncOrChanField(t) ==
    \/ \E i \in DOMAIN t.fields :
          t.fields[i].Type.kind \in {"Func", "Chan"} \/ HasFuncOrChanField(t.fields[i].Type)
    \/ \E i \in DOMAIN t.elem : HasFuncOrChanField(t.elem[i])

RECURSIVE HasVisibleFuncOrChan(_)
\* the struct has a func or chan field that is exported and not tagged
\* json:"-", directly or through exported, untagged fields of struct type
HasVisibleFuncOrChan(t) ==
    /\ t.kind = "Struct"
    /\ \E i \in DOMAIN t.fields :
          /\ IsExported(t.fields[i])
          /\ t.fields[i].Tag # jsonIgnoreTag
          /\ \/ t.fields[i].Type.kind \in {"Func", "Chan"}
             \/ HasVisibleFuncOrChan(t.fields[i].Type)

RECURSIVE HasPointerField(_)
HasPointerField(t) ==
    \/ \E i \in DOMAIN t.fields :
          t.fields[i].Type.kind = "Pointer" \/ HasPointerField(t.fields[i].Type)
    \/ \E i \in DOMAIN t.elem : HasPointerField(t.elem[i])

RECURSIVE RemoveIgnored(_)
\* the type with every field tagged json:"-" removed, at every level
RemoveIgnored(t) ==
    LET kept == SelectSeq(t.fields, LAMBDA f : f.Tag # jsonIgnoreTag) IN
    [t EXCEPT !.fields = [i \in DOMAIN kept |->
                             [kept[i] EXCEPT !.Type = RemoveIgnored(kept[i].Type)]]]

\* C6: a field tagged json:"-" is skipped at the root and at every nested
\* level: registering a record gives what registering the record without
\* its ignored fields gives, the same error or the same path map.
C6_IgnoredFieldsSkipped ==
    \A n \in WalkTypes :
        (phase # "init" /\ params = <<Candidate(n)>>) =>
            LET r == buildPathsForRoot(RemoveIgnored(TypeDef(n))) IN
            /\ newErr = r.err
            /\ r.err = nil => paths = ([id |-> 1, typ |-> n] :> r.paths)

====
